---- MODULE Spec2Model ----
(***************************************************************************)
(* Model of the PMO MCP API Python client (docs/mcp/sdk/python_client.py): *)
(* the token state of PMOMCPClient and the retry loop of                   *)
(* PMOMCPClient._request, with the server and the network as the           *)
(* environment that chooses the response of every attempt.                 *)
(***************************************************************************)
EXTENDS Integers, Sequences, FiniteSets, TLC

\* ------------------------------------------------------------------ bounds

\* Largest retry_attempts a client is constructed with.
MaxAttempts == 3

\* Largest value of the wall clock time.time().
MaxTime == 2

\* The pages the server holds, and the items of one page.
MaxPages == 3

MaxResults == 1

\* The invocations of the Lambda function.
MaxInvocations == 3

\* ------------------------------------------------------- values and inputs

\* Python's None, for auth_token.
None == "None"

\* token_expiry: None is the empty tuple, the float x is <<x>>.
NoExpiry == <<>>

Expiry(x) == <<x>>

\* Token strings an authentication response can carry (AuthResponse.token: str).
Tokens == {"", "abc"}

\* The largest int that time.time() + int converts to a float
\* (sys.float_info.max), scaled down: a greater int raises OverflowError.
FloatMax == 5

\* expiresIn values an authentication response can carry
\* (AuthResponse.expiresIn: int, of any size).
ExpiresIns == {0, 2, FloatMax + 1}

\* HTTP status codes the server can answer with.
Statuses == {200, 204, 304, 400, 401, 403, 404, 429, 503}

\* statusCode values the error envelope of a response body can carry.
EnvelopeCodes == {400, 401, 403, 404, 429, 503}

\* A decoded JSON body.  shape "envelope": the error envelope ApiError
\* accepts; shape "auth": a body AuthResponse accepts; shape "data": any
\* other JSON object.
Json(shape, token, expiresIn, statusCode, code) ==
    [shape |-> shape, token |-> token, expiresIn |-> expiresIn,
     statusCode |-> statusCode, code |-> code]

NoJson == Json("none", "", 0, 0, "")

Envelopes == {Json("envelope", "", 0, sc, "E_API") : sc \in EnvelopeCodes}

AuthBodies == {Json("auth", t, e, 0, "") : t \in Tokens, e \in ExpiresIns}

DataBodies == {Json("data", "", 0, 0, "")}

JsonValues == Envelopes \cup AuthBodies \cup DataBodies

\* session.request raised (connection refused, timeout, DNS failure): no response.
TransportFailure == [status |-> 0, body |-> "none", json |-> NoJson]

\* Before the first attempt of a call: nothing was received yet.
NoResponse == [status |-> -1, body |-> "none", json |-> NoJson]

\* What one call of session.request can produce.  body "empty": no content;
\* "not_json": content that response.json() cannot decode; "json": content
\* that decodes to the value json.
Responses ==
    {TransportFailure}
    \cup {[status |-> s, body |-> b, json |-> NoJson] :
            s \in Statuses, b \in {"empty", "not_json"}}
    \cup {[status |-> s, body |-> "json", json |-> j] :
            s \in Statuses, j \in JsonValues}

\* ------------------------------------------------------------- exceptions

Exc(cls, status_code, code) ==
    [cls |-> cls, status_code |-> status_code, code |-> code]

NoExc == Exc("None", 0, "")

\* PMOAPIError(error): code and status_code are copied from the envelope.
PMOAPIError(cls, error) == Exc(cls, error.statusCode, error.code)

\* The subclasses of PMOAPIError, and PMOAPIError itself.
PMOAPIErrorClasses ==
    {"PMOAPIError", "AuthenticationError", "PermissionError", "NotFoundError"}

\* ----------------------------------------------------------------- state

VARIABLES
    retry_attempts,     \* config.retry_attempts
    json_error_caught,  \* the installed requests raises a RequestException from response.json()
    auth_token,         \* self.auth_token
    token_expiry,       \* self.token_expiry
    now,                \* time.time()
    pc,                 \* where the current call of _request is
    op,                 \* the client operation that called _request
    headers,            \* the Authorization header of the call ("absent" or the token)
    attempt,            \* the loop variable of _request
    last_error,         \* the local last_error of _request
    resp,               \* what the last attempt received
    sent,               \* history: the number of requests the call has sent
    sleeps,             \* history: the arguments of time.sleep, in order
    outcome,            \* how the call of _request ended
    auth_result,        \* how the call of authenticate ended
    wire,               \* the Authorization header of the last request sent
    call_token,         \* history: self.auth_token when the call began
    issued,             \* history: the credential authenticate stored last
    prev,               \* history: how the client's previous call ended
    other,              \* a second thread's authenticate: what it is storing
    server,             \* the pages the server holds for list_customers
    page,               \* example_4_pagination: page
    has_more,           \* example_4_pagination: has_more
    all_customers,      \* example_4_pagination: all_customers
    fetched,            \* history: the pages list_customers was called with
    traversal,          \* example_4_pagination: in the loop, past it, or raised
    EC2_INSTANCE_ID,    \* ssl-renewal: the module's EC2_INSTANCE_ID
    handler,            \* ssl-renewal: where lambda_handler is
    instance_status,    \* ssl-renewal: the local instance_status
    command_sent,       \* history: send_command reached SSM in this invocation
    command_id,         \* ssl-renewal: the local command_id
    step_error,         \* history: the exception a step of this invocation raised
    returned_code,      \* the statusCode lambda_handler returned
    invocations,        \* history: the number of invocations begun
    responses           \* history: the statusCodes returned, one per return

\* The state of the pagination example.
pageVars == <<server, page, has_more, all_customers, fetched, traversal>>

\* The state of the client and of the calls on it.
clientVars == <<retry_attempts, json_error_caught, auth_token, token_expiry,
                now, pc, op, headers, attempt, last_error, resp, sent, sleeps,
                outcome, auth_result, wire, call_token, issued, prev, other>>

\* The state of the SSL-renewal Lambda function.
lambdaVars == <<EC2_INSTANCE_ID, handler, instance_status, command_sent,
                command_id, step_error, returned_code, invocations, responses>>

vars == <<clientVars, pageVars, lambdaVars>>

\* ------------------------------------------------------------- token state

\* Variant of is_authenticated: the token counts as valid at its expiry instant.
is_authenticated_Inclusive ==
    /\ auth_token # None
    /\ token_expiry # NoExpiry
    /\ token_expiry[1] >= now

\* is_authenticated()
is_authenticated ==
    /\ auth_token # None
    /\ token_expiry # NoExpiry
    /\ token_expiry[1] > now

\* Python truthiness of self.auth_token: None and "" are false.
Truthy(token) == token # None /\ token # ""

\* Variant of BuildHeaders: a token past its expiry is not attached.
BuildHeaders_OnlyValid(skip_auth, token) ==
    IF ~skip_auth /\ Truthy(token) /\ token_expiry # NoExpiry /\ token_expiry[1] > now
    THEN token ELSE "absent"

\* The Authorization header _request builds before its loop.
BuildHeaders(skip_auth, token) ==
    IF ~skip_auth /\ Truthy(token) THEN token ELSE "absent"

\* ----------------------------------------------------- one attempt's body

\* Variant of ResponseOk: only status 200 counts as a success.
ResponseOk_Only200(r) == r.status = 200

\* requests' Response.ok: the status is no 4xx and no 5xx.
ResponseOk(r) == ~(400 <= r.status /\ r.status < 600)

\* response.json() raises on content that is no JSON (an empty body included).
JsonFails(r) == r.body \in {"empty", "not_json"}

\* The exception response.json() raises: requests.exceptions.JSONDecodeError,
\* a RequestException from requests 2.27 on, a plain ValueError before.
JsonDecodeError == Exc("JSONDecodeError", 0, "")

\* ApiError(**response.json()) accepts only the error envelope.
ApiErrorParses(r) == r.body = "json" /\ r.json.shape = "envelope"

\* Variant of ErrorClass: the 401 branch is missing.
ErrorClass_No401(statusCode) ==
    IF statusCode = 403 THEN "PermissionError"
    ELSE IF statusCode = 404 THEN "NotFoundError"
    ELSE "PMOAPIError"

\* The exception class a parsed error envelope is mapped to.
ErrorClass(statusCode) ==
    IF statusCode = 401 THEN "AuthenticationError"
    ELSE IF statusCode = 403 THEN "PermissionError"
    ELSE IF statusCode = 404 THEN "NotFoundError"
    ELSE "PMOAPIError"

Return(value) == [type |-> "return", value |-> value, exc |-> NoExc]

Raise(exc) == [type |-> "raise", value |-> NoJson, exc |-> exc]

NoOutcome == [type |-> "none", value |-> NoJson, exc |-> NoExc]

\* The value _request returns for "no content".
NoContent == Json("None", "", 0, 0, "")

\* The try block of one attempt, given what session.request produced: the
\* value it returns or the exception it raises.
TryBody(r) ==
    IF r = TransportFailure THEN Raise(Exc("RequestException", 0, ""))
    ELSE IF ~ResponseOk(r) THEN
        IF JsonFails(r) THEN Raise(JsonDecodeError)
        ELSE IF ~ApiErrorParses(r) THEN Raise(Exc("ValidationError", 0, ""))
        ELSE Raise(PMOAPIError(ErrorClass(r.json.statusCode), r.json))
    ELSE IF r.status = 204 \/ r.body = "empty" THEN Return(NoContent)
    ELSE IF JsonFails(r) THEN Raise(JsonDecodeError)
    ELSE Return(r.json)

\* Variant of Caught: the except clause names PMOAPIError only.
Caught_OnlyApiErrors(e, jsonCaught) == e.cls \in PMOAPIErrorClasses

\* except (requests.RequestException, PMOAPIError) as e
Caught(e, jsonCaught) ==
    \/ e.cls = "RequestException"
    \/ e.cls \in PMOAPIErrorClasses
    \/ e.cls = "JSONDecodeError" /\ jsonCaught

\* Variant of Reraised: the 4xx check is missing.
Reraised_AuthOnly(e) == e.cls \in {"AuthenticationError", "PermissionError"}

\* Variant of Reraised: the 4xx range starts one too high.
Reraised_Above400(e) ==
    \/ e.cls \in {"AuthenticationError", "PermissionError"}
    \/ e.cls \in PMOAPIErrorClasses /\ 400 < e.status_code /\ e.status_code < 500

\* The handler re-raises: authentication and permission errors, and 4xx errors.
Reraised(e) ==
    \/ e.cls \in {"AuthenticationError", "PermissionError"}
    \/ e.cls \in PMOAPIErrorClasses /\ 400 <= e.status_code /\ e.status_code < 500

\* Variant of InRange: the loop runs one iteration more.
InRange_OneMore(a, n) == a <= n

\* Variant of InRange: the loop stops one iteration early.
InRange_OneShort(a, n) == a < n - 1

\* for attempt in range(retry_attempts): the loop runs another iteration.
InRange(a, n) == a < n

\* if attempt < self.config.retry_attempts - 1
SleepsAfter(a, n) == a < n - 1

\* Variant of Backoff: a linear delay.
Backoff_Linear(a) == 2 * a

\* time.sleep(2 ** attempt)
Backoff(a) == 2 ^ a

\* raise last_error, after the loop: raising None is a TypeError.
RaiseLast(le) ==
    IF le = NoExc THEN Raise(Exc("TypeError", 0, "")) ELSE Raise(le)

\* The error kind of the specification's taxonomy that an exception stands
\* for: the class for the three subclasses, the status range for a plain
\* PMOAPIError, Transport for a RequestException of session.request.
Kind(e) ==
    IF e.cls = "AuthenticationError" THEN "Authentication"
    ELSE IF e.cls = "PermissionError" THEN "Permission"
    ELSE IF e.cls = "NotFoundError" THEN "NotFound"
    ELSE IF e.cls = "PMOAPIError" /\ 400 <= e.status_code /\ e.status_code < 500
    THEN "Validation"
    ELSE IF e.cls = "PMOAPIError" /\ e.status_code >= 500 THEN "ServerFault"
    ELSE IF e.cls = "RequestException" THEN "Transport"
    ELSE "Unclassified"

\* ------------------------------------------------------------ authenticate

\* AuthResponse(**response) accepts only a body of the auth shape.
AuthResponseParses(value) == value.shape = "auth"

\* time.time() + auth.expiresIn raises OverflowError: the int is too large to
\* convert to float.
FloatOverflow(x) == x > FloatMax

\* Variant of AfterRequest: a call that ends with an AuthenticationError
\* drops the stored credential.
AfterRequest_Clears401(o, operation, token, expiry, t) ==
    IF operation # "authenticate"
    THEN IF o.type = "raise" /\ o.exc.cls = "AuthenticationError"
         THEN <<None, NoExpiry, "none">>
         ELSE <<token, expiry, "none">>
    ELSE IF o.type = "return" /\ AuthResponseParses(o.value)
    THEN IF FloatOverflow(o.value.expiresIn)
         THEN <<o.value.token, expiry, "failed">>
         ELSE <<o.value.token, Expiry(t + o.value.expiresIn), "ok">>
    ELSE <<token, expiry, "failed">>

\* What authenticate does once _request has ended with outcome o: the new
\* <<auth_token, token_expiry, auth_result>>.  The token is assigned before
\* the expiry is computed, so an OverflowError leaves the new token stored
\* with the expiry as it was.
AfterRequest(o, operation, token, expiry, t) ==
    IF operation # "authenticate" THEN <<token, expiry, "none">>
    ELSE IF o.type = "return" /\ AuthResponseParses(o.value)
    THEN IF FloatOverflow(o.value.expiresIn)
         THEN <<o.value.token, expiry, "failed">>
         ELSE <<o.value.token, Expiry(t + o.value.expiresIn), "ok">>
    ELSE <<token, expiry, "failed">>

\* No credential was stored yet.
NoCredential == [token |-> None, at |-> 0, ttl |-> 0]

\* The credential a successful authenticate stores at time t.
Credential(value, t) == [token |-> value.token, at |-> t, ttl |-> value.expiresIn]

\* Variant of AttemptHeaders: the headers are built again for every attempt.
AttemptHeaders_Rebuilt(h, skip_auth, token) == BuildHeaders(skip_auth, token)

\* The headers passed to session.request in the loop: the local built
\* before the loop.
AttemptHeaders(h, skip_auth, token) == h

\* -------------------------------------------------------------- behaviour

\* The Lambda function is not loaded.
LambdaAtRest ==
    /\ EC2_INSTANCE_ID = None
    /\ handler = "idle"
    /\ instance_status = "none"
    /\ command_sent = FALSE
    /\ command_id = "none"
    /\ step_error = "none"
    /\ returned_code = 0
    /\ invocations = 0
    /\ responses = <<>>

Init ==
    /\ LambdaAtRest
    /\ retry_attempts \in 0..MaxAttempts
    /\ json_error_caught \in BOOLEAN
    /\ auth_token = None
    /\ token_expiry = NoExpiry
    /\ now = 0
    /\ pc = "idle"
    /\ op = "none"
    /\ headers = "absent"
    /\ attempt = 0
    /\ last_error = NoExc
    /\ resp = NoResponse
    /\ sent = 0
    /\ sleeps = <<>>
    /\ outcome = NoOutcome
    /\ auth_result = "none"
    /\ wire = "none"
    /\ call_token = None
    /\ issued = NoCredential
    /\ prev = "none"
    /\ other = NoJson
    /\ server = <<>>
    /\ page = 1
    /\ has_more = TRUE
    /\ all_customers = <<>>
    /\ fetched = <<>>
    /\ traversal = "loop"

\* The call ends with outcome o; authenticate then stores the credential.
Finish(o) ==
    LET after == AfterRequest(o, op', auth_token, token_expiry, now) IN
    /\ pc' = "done"
    /\ outcome' = o
    /\ auth_token' = after[1]
    /\ token_expiry' = after[2]
    /\ auth_result' = after[3]
    /\ issued' = IF after[3] = "ok" THEN Credential(o.value, now) ELSE issued

\* Variant of Call: the attempt counter and the last error live on the client
\* and are carried over from the previous call.
Call_KeepsRetryState(operation) ==
    /\ pc \in {"idle", "done"}
    /\ op' = operation
    /\ headers' = BuildHeaders(operation = "authenticate", auth_token)
    /\ UNCHANGED <<last_error, attempt>>
    /\ sent' = 0
    /\ sleeps' = <<>>
    /\ resp' = NoResponse
    /\ wire' = "none"
    /\ call_token' = auth_token
    /\ prev' = IF pc = "done" THEN outcome.type ELSE prev
    /\ IF InRange(0, retry_attempts)
       THEN /\ pc' = "loop"
            /\ outcome' = NoOutcome
            /\ auth_result' = "none"
            /\ UNCHANGED <<auth_token, token_expiry, issued>>
       ELSE Finish(RaiseLast(NoExc))
    /\ UNCHANGED <<retry_attempts, json_error_caught, now, other, pageVars, lambdaVars>>

\* A client operation calls _request: the headers are built, and with an
\* empty range the loop is skipped and last_error is raised at once.
Call(operation) ==
    /\ pc \in {"idle", "done"}
    /\ op' = operation
    /\ headers' = BuildHeaders(operation = "authenticate", auth_token)
    /\ last_error' = NoExc
    /\ attempt' = 0
    /\ sent' = 0
    /\ sleeps' = <<>>
    /\ resp' = NoResponse
    /\ wire' = "none"
    /\ call_token' = auth_token
    /\ prev' = IF pc = "done" THEN outcome.type ELSE prev
    /\ IF InRange(0, retry_attempts)
       THEN /\ pc' = "loop"
            /\ outcome' = NoOutcome
            /\ auth_result' = "none"
            /\ UNCHANGED <<auth_token, token_expiry, issued>>
       ELSE Finish(RaiseLast(NoExc))
    /\ UNCHANGED <<retry_attempts, json_error_caught, now, other, pageVars, lambdaVars>>

authenticate == Call("authenticate")

request == Call("request")

\* One iteration of the loop: the request is sent, r is what comes back.
Attempt(r) ==
    LET t == TryBody(r) IN
    /\ pc = "loop"
    /\ resp' = r
    /\ sent' = sent + 1
    /\ wire' = AttemptHeaders(headers, op = "authenticate", auth_token)
    /\ op' = op
    /\ IF t.type = "return" THEN
            /\ Finish(t)
            /\ UNCHANGED <<last_error, attempt, sleeps>>
       ELSE IF ~Caught(t.exc, json_error_caught) THEN
            /\ Finish(t)
            /\ UNCHANGED <<last_error, attempt, sleeps>>
       ELSE IF Reraised(t.exc) THEN
            /\ Finish(t)
            /\ last_error' = t.exc
            /\ UNCHANGED <<attempt, sleeps>>
       ELSE IF SleepsAfter(attempt, retry_attempts) THEN
            /\ pc' = "sleeping"
            /\ last_error' = t.exc
            /\ sleeps' = Append(sleeps, Backoff(attempt))
            /\ UNCHANGED <<attempt, outcome, auth_token, token_expiry, auth_result, issued>>
       ELSE IF InRange(attempt + 1, retry_attempts) THEN
            /\ pc' = "loop"
            /\ last_error' = t.exc
            /\ attempt' = attempt + 1
            /\ UNCHANGED <<sleeps, outcome, auth_token, token_expiry, auth_result, issued>>
       ELSE
            /\ Finish(RaiseLast(t.exc))
            /\ last_error' = t.exc
            /\ UNCHANGED <<attempt, sleeps>>
    /\ UNCHANGED <<retry_attempts, json_error_caught, now, headers, call_token,
                   prev, other, pageVars, lambdaVars>>

SendAttempt == \E r \in Responses : Attempt(r)

\* time.sleep returns and the loop goes on to its next iteration.
WakeUp ==
    /\ pc = "sleeping"
    /\ op' = op
    /\ attempt' = attempt + 1
    /\ IF InRange(attempt + 1, retry_attempts)
       THEN /\ pc' = "loop"
            /\ UNCHANGED <<outcome, auth_token, token_expiry, auth_result, issued>>
       ELSE Finish(RaiseLast(last_error))
    /\ UNCHANGED <<retry_attempts, json_error_caught, now, headers,
                   last_error, resp, sent, sleeps, wire, call_token, prev,
                   other, pageVars, lambdaVars>>

\* The wall clock advances.
Tick ==
    /\ now < MaxTime
    /\ now' = now + 1
    /\ UNCHANGED <<retry_attempts, json_error_caught, auth_token, token_expiry,
                   pc, op, headers, attempt, last_error, resp, sent,
                   sleeps, outcome, auth_result, wire, call_token, issued,
                   prev, other, pageVars, lambdaVars>>

Next == authenticate \/ request \/ SendAttempt \/ WakeUp \/ Tick

Spec == Init /\ [][Next]_vars

\* ------------------------------------------------------- a second thread

\* The login responses the second thread receives, one after the other.
OtherAuthBodies == {Json("auth", t, e, 0, "") : t \in {"abc", "xyz"}, e \in ExpiresIns}

\* A second thread runs authenticate on the same client while the first one
\* uses it.  Its call of _request touches only locals of its own; what the
\* first thread can see of it are the two assignments that follow a
\* successful login, which are two steps: self.auth_token = auth.token ...
OtherStoreToken ==
    \E body \in OtherAuthBodies :
        /\ other = NoJson
        /\ other' = body
        /\ auth_token' = body.token
        /\ UNCHANGED <<retry_attempts, json_error_caught, token_expiry, now, pc,
                       op, headers, attempt, last_error, resp, sent, sleeps,
                       outcome, auth_result, wire, call_token, issued, prev,
                       pageVars, lambdaVars>>

\* ... and self.token_expiry = time.time() + auth.expiresIn, which stores
\* the expiry or raises OverflowError.
OtherStoreExpiry ==
    /\ other # NoJson
    /\ IF FloatOverflow(other.expiresIn)
       THEN UNCHANGED <<token_expiry, issued>>
       ELSE /\ token_expiry' = Expiry(now + other.expiresIn)
            /\ issued' = Credential(other, now)
    /\ other' = NoJson
    /\ UNCHANGED <<retry_attempts, json_error_caught, auth_token, now, pc, op,
                   headers, attempt, last_error, resp, sent, sleeps, outcome,
                   auth_result, wire, call_token, prev, pageVars, lambdaVars>>

\* The answers the server gives while the two threads run: a transport
\* failure, a 503 and a 401 with their error envelopes, a 200 with data.
ThreadResponses ==
    {TransportFailure}
    \cup {[status |-> sc, body |-> "json", json |-> Json("envelope", "", 0, sc, "E_API")] :
            sc \in {401, 503}}
    \cup {[status |-> 200, body |-> "json", json |-> j] : j \in DataBodies}

SendAttemptThreads == \E r \in ThreadResponses : Attempt(r)

\* The first thread only reads the token state (it calls operations other
\* than authenticate); the second thread is the single writer.
NextThreads ==
    \/ request
    \/ SendAttemptThreads
    \/ WakeUp
    \/ Tick
    \/ OtherStoreToken
    \/ OtherStoreExpiry

SpecThreads == Init /\ [][NextThreads]_vars

\* ------------------------------------------------------------ pagination

\* The customers a page can list.
Items == {"a", "b"}

ResultLists == UNION {[1..n -> Items] : n \in 0..MaxResults}

\* What the server answers to list_customers, page by page: the results and
\* pagination.hasMore of a PaginatedResponse.
Servers == [1..MaxPages -> [results : ResultLists, hasMore : BOOLEAN]]

\* The login response of the example.
ExampleAuth == Json("auth", "abc", 2, 0, "")

\* client.list_customers(page=page, limit=100): the PaginatedResponse of that
\* page.
list_customers(p) == server[p]

\* all_customers.extend(response.results)
Extend(acc, results) == acc \o results

\* Variant of NextPage: the page number is not advanced.
NextPage_Stays(p) == p

\* page += 1
NextPage(p) == p + 1

\* example_4_pagination after client.authenticate(...) returned and the three
\* locals were set; the server holds any pages.
InitPages ==
    /\ LambdaAtRest
    /\ retry_attempts = 3
    /\ json_error_caught \in BOOLEAN
    /\ auth_token = ExampleAuth.token
    /\ token_expiry = Expiry(ExampleAuth.expiresIn)
    /\ now = 0
    /\ pc = "done"
    /\ op = "authenticate"
    /\ headers = "absent"
    /\ attempt = 0
    /\ last_error = NoExc
    /\ resp = [status |-> 200, body |-> "json", json |-> ExampleAuth]
    /\ sent = 1
    /\ sleeps = <<>>
    /\ outcome = Return(ExampleAuth)
    /\ auth_result = "ok"
    /\ wire = "absent"
    /\ call_token = None
    /\ issued = Credential(ExampleAuth, 0)
    /\ prev = "none"
    /\ other = NoJson
    /\ server \in Servers
    /\ page = 1
    /\ has_more = TRUE
    /\ all_customers = <<>>
    /\ fetched = <<>>
    /\ traversal = "loop"

\* One iteration of the while loop in which list_customers returns.
PageCall ==
    /\ traversal = "loop"
    /\ has_more
    /\ page <= MaxPages
    /\ LET response == list_customers(page) IN
        /\ all_customers' = Extend(all_customers, response.results)
        /\ has_more' = response.hasMore
    /\ page' = NextPage(page)
    /\ fetched' = Append(fetched, page)
    /\ UNCHANGED <<server, traversal, clientVars, lambdaVars>>

\* list_customers raises (an error of _request, or a body that is not a
\* PaginatedResponse): the exception leaves the example.
PageFails ==
    /\ traversal = "loop"
    /\ has_more
    /\ page <= MaxPages
    /\ fetched' = Append(fetched, page)
    /\ traversal' = "raised"
    /\ UNCHANGED <<server, page, has_more, all_customers, clientVars, lambdaVars>>

\* while has_more: the condition is false, the loop is left.
PageExit ==
    /\ traversal = "loop"
    /\ ~has_more
    /\ traversal' = "done"
    /\ UNCHANGED <<server, page, has_more, all_customers, fetched, clientVars, lambdaVars>>

NextPages == PageCall \/ PageFails \/ PageExit

SpecPages == InitPages /\ [][NextPages]_vars

\* ----------------------------------------------------------- ssl-renewal

\* os.environ.get('EC2_INSTANCE_ID'): unset, empty, or an instance id.
InstanceIds == {None, "", "i-1"}

\* What ec2_client.describe_instances does: it raises, it finds no
\* reservation, or it gives the instance's State.Name.
DescribeOutcomes ==
    {[type |-> "raise", name |-> "ClientError"],
     [type |-> "raise", name |-> "IndexError"],
     [type |-> "status", name |-> "not_found"],
     [type |-> "status", name |-> "running"],
     [type |-> "status", name |-> "stopped"],
     [type |-> "status", name |-> "pending"]}

\* What ssm_client.send_command does: it raises before the command reached
\* SSM, it raises after (the answer is lost), or it answers with the
\* Command.CommandId.
SendOutcomes == {"refused", "lost", "sent"}

\* Variant of IsRunning: only a stopped instance is turned away.
IsRunning_NotStopped(status) == status # "stopped"

\* if instance_status != 'running': the 400 response; else the command.
IsRunning(status) == status = "running"

\* except Exception as e: every exception of the try block is caught.
HandlerCatches(e) == TRUE

\* The module is loaded with its environment; nothing else has happened.
InitLambda ==
    /\ retry_attempts = 3
    /\ json_error_caught = FALSE
    /\ auth_token = None
    /\ token_expiry = NoExpiry
    /\ now = 0
    /\ pc = "idle"
    /\ op = "none"
    /\ headers = "absent"
    /\ attempt = 0
    /\ last_error = NoExc
    /\ resp = NoResponse
    /\ sent = 0
    /\ sleeps = <<>>
    /\ outcome = NoOutcome
    /\ auth_result = "none"
    /\ wire = "none"
    /\ call_token = None
    /\ issued = NoCredential
    /\ prev = "none"
    /\ other = NoJson
    /\ server = <<>>
    /\ page = 1
    /\ has_more = TRUE
    /\ all_customers = <<>>
    /\ fetched = <<>>
    /\ traversal = "loop"
    /\ EC2_INSTANCE_ID \in InstanceIds
    /\ handler = "idle"
    /\ instance_status = "none"
    /\ command_sent = FALSE
    /\ command_id = "none"
    /\ step_error = "none"
    /\ returned_code = 0
    /\ invocations = 0
    /\ responses = <<>>

\* return {'statusCode': code, 'body': ...}
ReturnResponse(code) ==
    /\ handler' = "returned"
    /\ returned_code' = code
    /\ responses' = Append(responses, code)

\* A step of the try block raised e: the except clause answers 500, or the
\* exception leaves lambda_handler.
Raised(e) ==
    /\ step_error' = e
    /\ IF HandlerCatches(e)
       THEN ReturnResponse(500)
       ELSE /\ handler' = "raised"
            /\ UNCHANGED <<returned_code, responses>>

\* The Lambda service invokes lambda_handler with an event it decoded from
\* JSON (json.dumps(event) succeeds): the configuration is validated.
lambda_handler ==
    /\ handler \in {"idle", "returned"}
    /\ invocations < MaxInvocations
    /\ invocations' = invocations + 1
    /\ instance_status' = "none"
    /\ command_sent' = FALSE
    /\ command_id' = "none"
    /\ step_error' = "none"
    /\ IF ~Truthy(EC2_INSTANCE_ID)
       THEN ReturnResponse(500)
       ELSE /\ handler' = "check"
            /\ returned_code' = 0
            /\ UNCHANGED responses
    /\ UNCHANGED <<EC2_INSTANCE_ID, clientVars, pageVars>>

\* instance_status = check_instance_status(EC2_INSTANCE_ID), and the test of
\* the status that follows.
check_instance_status ==
    /\ handler = "check"
    /\ \E d \in DescribeOutcomes :
        IF d.type = "raise"
        THEN /\ Raised(d.name)
             /\ UNCHANGED instance_status
        ELSE /\ instance_status' = d.name
             /\ step_error' = step_error
             /\ IF IsRunning(d.name)
                THEN /\ handler' = "send"
                     /\ UNCHANGED <<returned_code, responses>>
                ELSE ReturnResponse(400)
    /\ UNCHANGED <<EC2_INSTANCE_ID, command_sent, command_id, invocations,
                   clientVars, pageVars>>

\* command_id = execute_ssl_renewal(EC2_INSTANCE_ID), and the 200 response.
execute_ssl_renewal ==
    /\ handler = "send"
    /\ \E s \in SendOutcomes :
        /\ command_sent' = (s # "refused")
        /\ IF s = "sent"
           THEN /\ command_id' = "cmd-1"
                /\ step_error' = step_error
                /\ ReturnResponse(200)
           ELSE /\ Raised("ClientError")
                /\ UNCHANGED command_id
    /\ UNCHANGED <<EC2_INSTANCE_ID, instance_status, invocations, clientVars,
                   pageVars>>

NextLambda == lambda_handler \/ check_instance_status \/ execute_ssl_renewal

SpecLambda == InitLambda /\ [][NextLambda]_vars

\* ------------------------------------------------------------- properties

\* The last attempt received an error response (status 4xx or 5xx) whose
\* body is the error envelope with statusCode sc.
EnvelopeFailure(r, sc) ==
    /\ 400 <= r.status /\ r.status < 600
    /\ r.body = "json"
    /\ r.json.shape = "envelope"
    /\ r.json.statusCode = sc

\* The call is still running: it has neither returned nor raised.
InProgress == pc \in {"loop", "sleeping"} /\ outcome = NoOutcome

\* The call has ended by raising exactly the exception e.
Surfaces(e) == pc = "done" /\ outcome = Raise(e)

\* No sleep followed the last attempt.
NoSleepAfterLast == Len(sleeps) = sent - 1

\* C1: with retry_attempts = n >= 1, an attempt that receives a 503 error
\* response does not end the call while fewer than n attempts were made, and
\* the n-th one ends it: so a call whose every attempt receives 503 makes
\* exactly n attempts and then raises the error of the n-th attempt, a
\* PMOAPIError with status 503, of kind ServerFault.
C1_ExhaustedRetriesSurfaceLastError ==
    (sent >= 1 /\ EnvelopeFailure(resp, 503)) =>
        /\ sent <= retry_attempts
        /\ sent < retry_attempts => InProgress
        /\ sent = retry_attempts =>
            /\ Surfaces(Exc("PMOAPIError", 503, resp.json.code))
            /\ outcome.exc = last_error
            /\ Kind(outcome.exc) = "ServerFault"

\* C1's case: three attempts allowed, three made, the last one a 503, two
\* sleeps in between, and the call has raised.
C1_Witness ==
    /\ retry_attempts = 3
    /\ sent = 3
    /\ EnvelopeFailure(resp, 503)
    /\ resp.status = 503
    /\ sleeps = <<1, 2>>
    /\ pc = "done"
    /\ outcome.type = "raise"

\* C2: an attempt that receives the 401 (403) error envelope ends the call
\* at that attempt, whatever number of attempts remains: the call raises
\* AuthenticationError (PermissionError) and no sleep follows the attempt.
C2_AuthErrorsNotRetried ==
    \A sc \in {401, 403} :
        (sent >= 1 /\ EnvelopeFailure(resp, sc)) =>
            /\ Surfaces(Exc(IF sc = 401 THEN "AuthenticationError"
                                        ELSE "PermissionError",
                            sc, resp.json.code))
            /\ Kind(outcome.exc) = (IF sc = 401 THEN "Authentication"
                                                ELSE "Permission")
            /\ NoSleepAfterLast

\* C2's case: a 401 on the first of three allowed attempts; one attempt made.
C2_Witness ==
    /\ retry_attempts = 3
    /\ sent = 1
    /\ resp.status = 401
    /\ EnvelopeFailure(resp, 401)
    /\ pc = "done"
    /\ outcome.exc.cls = "AuthenticationError"
    /\ sleeps = <<>>

\* A 2xx response whose body _request can decode: no content, or JSON.
Decodable2xx(r) ==
    /\ 200 <= r.status /\ r.status < 300
    /\ r.status = 204 \/ r.body \in {"empty", "json"}

\* C3: an attempt that receives a decodable 2xx response ends the call at
\* that attempt, after any number of failed attempts before it: the call
\* returns the decoded body of that response and raises nothing.
C3_SuccessAfterRetries ==
    (sent >= 1 /\ Decodable2xx(resp)) =>
        /\ pc = "done"
        /\ outcome = Return(IF resp.status = 204 \/ resp.body = "empty"
                            THEN NoContent ELSE resp.json)
        /\ sent <= retry_attempts
        /\ NoSleepAfterLast

\* C3's case: 503 on the second attempt (and a failure on the first), then
\* 200 with a JSON body on the third, which is returned.
C3_Witness ==
    /\ retry_attempts = 3
    /\ sent = 3
    /\ sleeps = <<1, 2>>
    /\ last_error = Exc("PMOAPIError", 503, "E_API")
    /\ resp.status = 200
    /\ resp.body = "json"
    /\ pc = "done"
    /\ outcome = Return(resp.json)

\* C4 as claimed: an attempt that receives the 429 error envelope is retried
\* while attempts remain, so it does not end the call before the attempt
\* budget is used up, and the error is of kind RateLimited.
C4_RateLimitedIsRetried ==
    (sent >= 1 /\ EnvelopeFailure(resp, 429) /\ sent < retry_attempts) =>
        InProgress

\* C4, amended: an attempt that receives the 429 error envelope ends the
\* call at that attempt like every other 4xx: the call raises a plain
\* PMOAPIError with status 429 (a terminal client error, not a retried
\* RateLimited one), with attempts remaining or not, and no sleep follows.
C4_RateLimitedIsTerminal ==
    (sent >= 1 /\ EnvelopeFailure(resp, 429)) =>
        /\ Surfaces(Exc("PMOAPIError", 429, resp.json.code))
        /\ Kind(outcome.exc) = "Validation"
        /\ outcome.exc = last_error
        /\ NoSleepAfterLast

\* C4's case: a 429 on the first of three allowed attempts ends the call.
C4_Witness ==
    /\ retry_attempts = 3
    /\ sent = 1
    /\ resp.status = 429
    /\ EnvelopeFailure(resp, 429)
    /\ pc = "done"
    /\ outcome.exc.status_code = 429
    /\ sleeps = <<>>

\* C5 as claimed: for every retry_attempts (0 included) and every sequence
\* of responses, a call that has ended has either returned a value or
\* raised a classified error (a PMOAPIError or a transport
\* RequestException), never an exception of another kind.
C5_ExactlyOneClassifiedOutcome ==
    pc = "done" =>
        \/ outcome.type = "return" /\ outcome.exc = NoExc
        \/ /\ outcome.type = "raise"
           /\ outcome.value = NoJson
           /\ Kind(outcome.exc) # "Unclassified"

\* C6: the k-th sleep of a call (k = 1, 2, ...) lasts 2^(k-1) seconds and
\* follows the k-th attempt; there is no sleep before the first attempt, and
\* none after the attempt that ends the call (the last allowed one, a
\* failure that is not retried, or a success): a call that uses up n
\* attempts has slept 1, 2, ..., 2^(n-2).
C6_BackoffSchedule ==
    /\ \A k \in 1..Len(sleeps) : sleeps[k] = 2 ^ (k - 1)
    /\ sent = 0 => sleeps = <<>>
    /\ pc \in {"loop", "sleeping"} => Len(sleeps) = sent
    /\ (pc = "done" /\ sent >= 1) => Len(sleeps) = sent - 1
    /\ retry_attempts >= 1 => Len(sleeps) <= retry_attempts - 1

\* C6's case: the call sleeps for the second time, 2 seconds, after its
\* second failed attempt, having slept 1 second after the first.
C6_Witness ==
    /\ retry_attempts >= 3
    /\ pc = "sleeping"
    /\ sent = 2
    /\ sleeps = <<1, 2>>

\* An error response whose body is not the error envelope: no JSON at all,
\* or JSON of another shape.
MalformedErrorResponse(r) ==
    /\ 400 <= r.status /\ r.status < 600
    /\ ~(r.body = "json" /\ r.json.shape = "envelope")

\* C7 as claimed: an error response whose body is not the error envelope is
\* classified ServerFault with code "malformed_error_body" and handled as a
\* retryable failure: retried while attempts remain, and surfaced with that
\* code when it was the last attempt.
C7_MalformedBodyIsServerFault ==
    (sent >= 1 /\ MalformedErrorResponse(resp)) =>
        /\ sent < retry_attempts => InProgress
        /\ pc = "done" =>
            /\ outcome.type = "raise"
            /\ outcome.exc.code = "malformed_error_body"
            /\ Kind(outcome.exc) = "ServerFault"

\* C8 as claimed: a response whose status is outside 200..299 (1xx and 3xx
\* included) is never returned to the caller as a success value.
C8_Non2xxIsNeverSuccess ==
    (sent >= 1 /\ resp # TransportFailure
        /\ ~(200 <= resp.status /\ resp.status < 300)) =>
        outcome.type # "return"

\* C9: an attempt that receives the 404 error envelope, or that of another
\* 4xx status (400), ends the call at that attempt, with attempts remaining
\* or not: the call raises NotFoundError (a plain PMOAPIError for 400), and
\* no sleep follows the attempt.
C9_ClientErrorsAreTerminal ==
    \A sc \in {400, 404} :
        (sent >= 1 /\ EnvelopeFailure(resp, sc)) =>
            /\ Surfaces(Exc(IF sc = 404 THEN "NotFoundError" ELSE "PMOAPIError",
                            sc, resp.json.code))
            /\ Kind(outcome.exc) = (IF sc = 404 THEN "NotFound" ELSE "Validation")
            /\ NoSleepAfterLast

\* C9's case: a 404 on the second of three allowed attempts, after one
\* retried failure; the call ends there.
C9_Witness ==
    /\ retry_attempts = 3
    /\ sent = 2
    /\ resp.status = 404
    /\ EnvelopeFailure(resp, 404)
    /\ pc = "done"
    /\ outcome.exc.cls = "NotFoundError"
    /\ sleeps = <<1>>

\* C10: an attempt that ends in a transport failure is retried while
\* attempts remain, after a sleep of 2^(attempt index) seconds; when it was
\* the last allowed attempt the call raises that RequestException, which
\* carries no HTTP status.
C10_TransportFailureIsRetried ==
    (sent >= 1 /\ resp = TransportFailure) =>
        /\ sent <= retry_attempts
        /\ sent < retry_attempts =>
            /\ InProgress
            /\ Len(sleeps) = sent
            /\ sleeps[sent] = 2 ^ (sent - 1)
        /\ sent = retry_attempts =>
            /\ Surfaces(Exc("RequestException", 0, ""))
            /\ outcome.exc = last_error
            /\ Kind(outcome.exc) = "Transport"
            /\ NoSleepAfterLast

\* C10's case: three attempts allowed, the third one a transport failure as
\* well; the call has raised it after sleeping 1 and 2 seconds.
C10_Witness ==
    /\ retry_attempts = 3
    /\ sent = 3
    /\ resp = TransportFailure
    /\ last_error.cls = "RequestException"
    /\ sleeps = <<1, 2>>
    /\ pc = "done"
    /\ outcome.type = "raise"

\* C11 as claimed: an attempt that receives a 2xx response ends the call at
\* that attempt with a returned value, whatever the body is, and no sleep
\* follows it; with status 204 or an empty body the value is None.
C11_Any2xxReturnsAtOnce ==
    (sent >= 1 /\ 200 <= resp.status /\ resp.status < 300) =>
        /\ pc = "done"
        /\ outcome.type = "return"
        /\ (resp.status = 204 \/ resp.body = "empty") => outcome.value = NoContent
        /\ NoSleepAfterLast

\* C16 as claimed: the error raised for an error response with a parseable
\* envelope carries the HTTP status of the response received, and its kind
\* is the one the rule table gives for that HTTP status.
C16_KindFollowsHttpStatus ==
    (sent >= 1 /\ pc = "done" /\ outcome.type = "raise"
        /\ \E sc \in EnvelopeCodes : EnvelopeFailure(resp, sc)) =>
        /\ outcome.exc.status_code = resp.status
        /\ Kind(outcome.exc) =
              Kind(Exc(ErrorClass(resp.status), resp.status, resp.json.code))

\* C12: every request of a call carries the Authorization header built when
\* the call began: Bearer <token> if and only if the call is not the
\* authenticate call and the client then held a (non-empty) token, whether
\* that token had expired or not; the authenticate call never carries one.
C12_AuthorizationHeader ==
    pc # "idle" =>
        /\ headers = (IF op # "authenticate" /\ call_token # None /\ call_token # ""
                      THEN call_token ELSE "absent")
        /\ op = "authenticate" => headers = "absent"
        /\ sent >= 1 => wire = headers

\* C12's case: a request was sent with the token attached although the
\* token had expired when the call began and is_authenticated() is false.
C12_Witness ==
    /\ op = "request"
    /\ sent >= 1
    /\ wire = "abc"
    /\ auth_token = "abc"
    /\ issued.ttl = 2
    /\ issued.at + issued.ttl <= now
    /\ call_token = "abc"
    /\ ~is_authenticated

\* C13 as claimed: before any successful authenticate is_authenticated() is
\* false; after one at time t with a positive ttl it is true exactly while
\* t <= now < t + ttl, and the stored token is the issued one throughout,
\* until the next successful authenticate.
C13_TokenValidity ==
    /\ issued = NoCredential => ~is_authenticated
    /\ (issued # NoCredential /\ issued.ttl > 0) =>
        /\ is_authenticated <=> (issued.at <= now /\ now < issued.at + issued.ttl)
        /\ auth_token = issued.token

\* C13's case: the clock has reached t + ttl; is_authenticated() is false and
\* the token is still the issued one.
C13_Witness ==
    /\ issued.token = "abc"
    /\ issued.ttl = 2
    /\ now = issued.at + issued.ttl
    /\ ~is_authenticated
    /\ auth_token = "abc"

\* C14 as claimed: whenever the client holds a credential, its expiry
\* instant is strictly later than the instant it was issued.
C14_ExpiryAfterIssue ==
    issued # NoCredential =>
        (token_expiry # NoExpiry /\ token_expiry[1] > issued.at)

\* C15 as claimed: while a second thread re-authenticates, whatever a reader
\* finds in the token state is one whole credential: no credential at all,
\* or the token and the expiry of the same authenticate.
C15_NoTornCredential ==
    \/ auth_token = None /\ token_expiry = NoExpiry
    \/ /\ issued # NoCredential
       /\ auth_token = issued.token
       /\ token_expiry = Expiry(issued.at + issued.ttl)

\* C19 as claimed: every retry of a call (an attempt sent after a backoff
\* sleep) carries the token the token state holds at the moment the retry is
\* sent.
C19_EachAttemptReadsTheToken ==
    [][(sent >= 1 /\ sent' = sent + 1) =>
          wire' = BuildHeaders(op = "authenticate", auth_token)]_vars

\* C19, amended: the Authorization header is built once, before the first
\* attempt, from the token the client holds when the call begins, and every
\* attempt of the call, retries included, carries that header: a token that
\* a concurrent re-authentication stores during a backoff sleep is not sent
\* by the attempts that follow.
C19_HeaderBuiltOncePerCall ==
    sent >= 1 =>
        wire = (IF op # "authenticate" /\ call_token # None /\ call_token # ""
                THEN call_token ELSE "absent")

\* C19's case: the call began with token "abc"; during its first sleep the
\* second thread stored "xyz"; the second attempt was sent with "abc".
C19_Witness ==
    /\ op = "request"
    /\ sent = 2
    /\ sleeps = <<1>>
    /\ call_token = "abc"
    /\ auth_token = "xyz"
    /\ other = NoJson
    /\ wire = "abc"

\* C20: _request has no effect on the token state.  Every step of an operation
\* other than authenticate (the call, each attempt, each wake-up, the return
\* or the raise that ends it, a 401 included) leaves auth_token and
\* token_expiry as they were.
C20_RequestLeavesTokenState ==
    [][op' = "request" => UNCHANGED <<auth_token, token_expiry>>]_vars

\* A request ended with an AuthenticationError while a credential is held.
C20_Witness ==
    /\ op = "request"
    /\ pc = "done"
    /\ outcome.type = "raise"
    /\ outcome.exc.cls = "AuthenticationError"
    /\ auth_token = "abc"
    /\ token_expiry # NoExpiry

\* C18: retry state is scoped to one logical call.  A call that has sent
\* nothing yet is at attempt 0 with no last error and no sleep behind it,
\* whatever the earlier calls did; the attempt index always equals the number
\* of requests this call has sent; and the outcome of a call that sent at
\* least one request is a function of the response to its own last attempt,
\* so equal responses give equal results.
C18_RetryStateIsPerCall ==
    /\ (pc = "loop" /\ sent = 0) =>
            (attempt = 0 /\ last_error = NoExc /\ sleeps = <<>> /\ outcome = NoOutcome)
    /\ pc = "loop" => attempt = sent
    /\ (pc = "done" /\ sent >= 1) => outcome = TryBody(resp)

\* After a call that ended with an error, the next call returned its value
\* at its first attempt.
C18_Witness ==
    /\ prev = "raise"
    /\ op = "request"
    /\ pc = "done"
    /\ sent = 1
    /\ attempt = 0
    /\ outcome.type = "return"
    /\ resp.status = 200

\* The number of calls of list_customers that returned a page.
Returned == Len(fetched) - (IF traversal = "raised" THEN 1 ELSE 0)

\* The results of the server's pages 1..n, in page order.
RECURSIVE FirstPages(_)
FirstPages(n) == IF n = 0 THEN <<>> ELSE FirstPages(n - 1) \o server[n].results

\* C17: a traversal that starts at page 1 calls list_customers exactly once
\* per page, for the pages 1, 2, 3, ... in order; every page before the last
\* one fetched had hasMore = true, so the traversal stops right after the
\* first page with hasMore = false; and all_customers holds the results of
\* the pages fetched, in page order.
C17_PageTraversal ==
    /\ fetched = [i \in 1..Len(fetched) |-> i]
    /\ \A i \in 1..(Returned - 1) : server[i].hasMore
    /\ all_customers = FirstPages(Returned)
    /\ traversal = "done" => (Returned >= 1 /\ ~server[Returned].hasMore)
    /\ (traversal = "loop" /\ has_more) => page = Len(fetched) + 1

\* hasMore = true, true, false: the traversal ended after exactly 3 calls
\* with the results of the three pages in order.
C17_Witness ==
    /\ server[1].hasMore /\ server[2].hasMore /\ ~server[3].hasMore
    /\ server[1].results = <<"a">>
    /\ server[2].results = <<"b">>
    /\ server[3].results = <<"a">>
    /\ traversal = "done"
    /\ fetched = <<1, 2, 3>>
    /\ all_customers = <<"a", "b", "a">>

\* The last attempt of the call failed in a way the loop retries: its
\* exception was caught and not raised again.
FailedRetryably ==
    /\ TryBody(resp).type = "raise"
    /\ Caught(TryBody(resp).exc, json_error_caught)
    /\ ~Reraised(TryBody(resp).exc)

\* C21: in one logical call the number of attempts sent never exceeds
\* retry_attempts; an attempt is sent only while the call is unresolved and
\* in its loop, never after it returned or raised; and the call is ready to
\* send a further attempt only when the previous one failed retryably and
\* one backoff sleep per attempt sent has ended.
C21_AttemptsBoundedAndSequential ==
    /\ [](sent <= retry_attempts)
    /\ []((pc = "loop" /\ sent >= 1) => (FailedRetryably /\ Len(sleeps) = sent))
    /\ [](pc = "sleeping" => (FailedRetryably /\ Len(sleeps) = sent))
    /\ [][sent' = sent + 1 => (pc = "loop" /\ outcome = NoOutcome)]_vars

\* Two attempts failed and two sleeps ended: the call is about to send its
\* third and last attempt.
C21_Witness ==
    /\ retry_attempts = 3
    /\ pc = "loop"
    /\ sent = 2
    /\ attempt = 2
    /\ sleeps = <<1, 2>>
    /\ outcome = NoOutcome

\* C22 as claimed: a step changes auth_token or token_expiry only when it is
\* the end of an authenticate that succeeds (the login returned, the body
\* decoded, authenticate returns), and that step sets both from the login
\* response; an authenticate that fails leaves both as they were.
C22_OnlySuccessfulAuthenticateStores ==
    [][(auth_token' # auth_token \/ token_expiry' # token_expiry) =>
          /\ op' = "authenticate"
          /\ auth_result' = "ok"
          /\ auth_token' = outcome'.value.token
          /\ token_expiry' = Expiry(now + outcome'.value.expiresIn)]_vars

\* C23 as claimed: whenever is_authenticated() is true, a request that
\* requires auth and is begun at that moment carries an Authorization
\* header, whatever token string the login response carried.
C23_AuthenticatedRequestsCarryHeader ==
    [][(pc \in {"idle", "done"} /\ pc' = "loop" /\ op' = "request" /\ is_authenticated)
          => headers' # "absent"]_vars

\* An invocation of lambda_handler is under way.
Handling == handler \in {"check", "send"}

\* C24: the renewal command is sent only when EC2_INSTANCE_ID is configured
\* and the status check answered 'running'; lambda_handler never raises and
\* every invocation returns exactly one response, whose statusCode is 200
\* iff the command was sent and its id obtained, 400 iff the instance was
\* found not running (nothing sent), and 500 when the instance id is unset
\* or a step raised.
C24_RenewalHandler ==
    /\ command_sent => (Truthy(EC2_INSTANCE_ID) /\ instance_status = "running")
    /\ handler # "raised"
    /\ Len(responses) = invocations - (IF Handling THEN 1 ELSE 0)
    /\ Handling => returned_code = 0
    /\ handler = "returned" =>
        /\ returned_code \in {200, 400, 500}
        /\ returned_code = responses[Len(responses)]
        /\ returned_code = 200 <=> (command_sent /\ command_id # "none")
        /\ returned_code = 400 <=>
              (instance_status \notin {"none", "running"} /\ ~command_sent)
        /\ (~Truthy(EC2_INSTANCE_ID) \/ step_error # "none") => returned_code = 500

\* Three invocations: the instance was stopped, then the command was lost,
\* then it was sent and its id came back.
C24_Witness ==
    /\ handler = "returned"
    /\ responses = <<400, 500, 200>>
    /\ command_sent
    /\ command_id = "cmd-1"
    /\ instance_status = "running"

====
